---------------------------- MODULE Spec2Model ----------------------------
(***************************************************************************)
(* A model of pdforganizer (src/src/pdforg_base.py): the batch filing      *)
(* loop (process_directory / organize_pdf), the rate-limited lookup client *)
(* (MetadataFetcher), the candidate resolver (search_metadata,             *)
(* evaluate_metadata_quality) and the identity normalizer                  *)
(* (parse_author_name, clean_title, create_filename).                      *)
(*                                                                         *)
(* Python strings are sequences of one-character strings, so that the      *)
(* regular expressions and string methods of the source are computed       *)
(* character by character.                                                 *)
(***************************************************************************)
EXTENDS Integers, Sequences, FiniteSets, TLC

(***************************************************************************)
(* Characters and the character classes the source's regular expressions   *)
(* use.  AsciiOrder lists the characters of the model by code point.       *)
(***************************************************************************)
AsciiOrder ==
    << " ", "(", ")", ",", "-", ".", "/",
       "0", "1", "2", "3", "4", "5", "6", "7", "8", "9", ":", ";",
       "A", "B", "C", "D", "E", "F", "G", "H", "I", "J", "K", "L", "M",
       "N", "O", "P", "Q", "R", "S", "T", "U", "V", "W", "X", "Y", "Z",
       "_",
       "a", "b", "c", "d", "e", "f", "g", "h", "i", "j", "k", "l", "m",
       "n", "o", "p", "q", "r", "s", "t", "u", "v", "w", "x", "y", "z" >>

Chars == {AsciiOrder[i] : i \in 1..Len(AsciiOrder)}

\* ord(c), counted within AsciiOrder
OrdTable == [c \in Chars |-> CHOOSE i \in 1..Len(AsciiOrder) : AsciiOrder[i] = c]
Ord(c) == OrdTable[c]

DigitChars == {"0", "1", "2", "3", "4", "5", "6", "7", "8", "9"}

UpperChars ==
    {"A", "B", "C", "D", "E", "F", "G", "H", "I", "J", "K", "L", "M",
     "N", "O", "P", "Q", "R", "S", "T", "U", "V", "W", "X", "Y", "Z"}

LowerChars ==
    {"a", "b", "c", "d", "e", "f", "g", "h", "i", "j", "k", "l", "m",
     "n", "o", "p", "q", "r", "s", "t", "u", "v", "w", "x", "y", "z"}

\* \s of the re module, restricted to the characters of the model
SpaceChars == {" "}

\* \w of the re module, restricted to the characters of the model
WordChars == LowerChars \cup UpperChars \cup DigitChars \cup {"_"}

\* str.lower() on one character
LowerTable ==
    [c \in Chars |->
        IF c \in UpperChars THEN AsciiOrder[Ord(c) + (Ord("a") - Ord("A"))]
        ELSE c]
LowerChar(c) == LowerTable[c]

\* str.lower()
StrLower(s) == [i \in 1..Len(s) |-> LowerChar(s[i])]

\* s[i:] and s[:i] with Python's 0-based slice bounds
DropFirst(s, n) == SubSeq(s, n + 1, Len(s))
TakeFirst(s, n) == SubSeq(s, 1, n)

RECURSIVE LStripSet(_, _)
LStripSet(s, set) ==
    IF s # << >> /\ Head(s) \in set THEN LStripSet(Tail(s), set) ELSE s

RECURSIVE RStripSet(_, _)
RStripSet(s, set) ==
    IF s # << >> /\ s[Len(s)] \in set
    THEN RStripSet(SubSeq(s, 1, Len(s) - 1), set)
    ELSE s

\* str.strip(): whitespace off both ends
Strip(s) == RStripSet(LStripSet(s, SpaceChars), SpaceChars)

\* str.strip(c)
StripChar(s, c) == RStripSet(LStripSet(s, {c}), {c})

\* str.startswith(p)
StartsWith(s, p) == Len(p) <= Len(s) /\ SubSeq(s, 1, Len(p)) = p

\* str.find(sub) as a 1-based index, 0 when absent
Find(s, sub) ==
    LET hits == {i \in 1..(Len(s) - Len(sub) + 1) :
                    SubSeq(s, i, i + Len(sub) - 1) = sub}
    IN  IF hits = {} THEN 0 ELSE CHOOSE i \in hits : \A j \in hits : i <= j

\* sub in s
Contains(s, sub) == Find(s, sub) # 0

\* s.split(sep)[0]
SplitFirst(s, sep) ==
    IF Contains(s, sep) THEN SubSeq(s, 1, Find(s, sep) - 1) ELSE s

\* the number of pieces of s.split(sep)
RECURSIVE SplitCount(_, _)
SplitCount(s, sep) ==
    IF Contains(s, sep)
    THEN 1 + SplitCount(DropFirst(s, Find(s, sep) + Len(sep) - 1), sep)
    ELSE 1

\* s.split(): the maximal runs of non-whitespace characters
RECURSIVE Words(_)
Words(s) ==
    LET t == LStripSet(s, SpaceChars)
        ends == {i \in 1..Len(t) : t[i] \in SpaceChars}
        n == IF ends = {} THEN Len(t)
             ELSE (CHOOSE i \in ends : \A j \in ends : i <= j) - 1
    IN  IF t = << >> THEN << >>
        ELSE << SubSeq(t, 1, n) >> \o Words(DropFirst(t, n))

\* sep.join(ws)
RECURSIVE Join(_, _)
Join(ws, sep) ==
    IF ws = << >> THEN << >>
    ELSE IF Len(ws) = 1 THEN ws[1]
    ELSE ws[1] \o sep \o Join(Tail(ws), sep)

\* re.sub('[^set]', '', s): delete the characters outside set
KeepOnly(s, set) == SelectSeq(s, LAMBDA c : c \in set)

\* re.sub('[^set]', r, s): replace each character outside set by r
ReplaceOutside(s, set, r) ==
    [i \in 1..Len(s) |-> IF s[i] \in set THEN s[i] ELSE r]

\* re.sub('c+', 'c', s): collapse each run of c to one c
RECURSIVE CollapseRuns(_, _)
CollapseRuns(s, c) ==
    IF Len(s) < 2 THEN s
    ELSE IF s[1] = c /\ s[2] = c THEN CollapseRuns(Tail(s), c)
    ELSE << s[1] >> \o CollapseRuns(Tail(s), c)

\* re.sub('\s+', r, s): replace each run of whitespace by r
RECURSIVE ReplaceSpaceRuns(_, _)
ReplaceSpaceRuns(s, r) ==
    IF s = << >> THEN << >>
    ELSE IF s[1] \in SpaceChars
    THEN r \o ReplaceSpaceRuns(LStripSet(s, SpaceChars), r)
    ELSE << s[1] >> \o ReplaceSpaceRuns(Tail(s), r)

\* str.isdigit()
IsDigit(s) == s # << >> /\ \A i \in 1..Len(s) : s[i] \in DigitChars

\* int(s) of a string of decimal digits
RECURSIVE ToInt(_)
ToInt(s) ==
    IF s = << >> THEN 0
    ELSE 10 * ToInt(SubSeq(s, 1, Len(s) - 1)) + (Ord(s[Len(s)]) - Ord("0"))

\* lexicographic order of Python strings (list.sort on paths)
RECURSIVE StrLess(_, _)
StrLess(a, b) ==
    IF b = << >> THEN FALSE
    ELSE IF a = << >> THEN TRUE
    ELSE IF a[1] # b[1] THEN Ord(a[1]) < Ord(b[1])
    ELSE StrLess(Tail(a), Tail(b))

(***************************************************************************)
(* The identity normalizer.                                                *)
(***************************************************************************)
S_unknown == << "u", "n", "k", "n", "o", "w", "n" >>
S_Unknown == << "U", "n", "k", "n", "o", "w", "n" >>
S_doc == << "d", "o", "c", "-" >>
S_and == << " ", "a", "n", "d", " " >>
S_ellipsis == << ".", ".", "." >>
S_pdf == << ".", "p", "d", "f" >>

\* the list academic_titles of parse_author_name, in its order
academic_titles ==
    << << "d", "r" >>,
       << "d", "r", "." >>,
       << "p", "r", "o", "f" >>,
       << "p", "r", "o", "f", "." >>,
       << "p", "h", "d" >>,
       << "p", "h", "d", "." >>,
       << "d", "o", "t", "t" >>,
       << "d", "o", "t", "t", "." >> >>

\* the loop over academic_titles: each title that prefixes the current
\* string is cut off and the rest stripped, the next title sees the result
RECURSIVE StripAcademicTitles(_, _)
StripAcademicTitles(author, titles) ==
    IF titles = << >> THEN author
    ELSE StripAcademicTitles(
             IF StartsWith(author, Head(titles))
             THEN Strip(DropFirst(author, Len(Head(titles))))
             ELSE author,
             Tail(titles))

\* the characters re.sub(r'[^\w\s,.-]', '', author) keeps
AuthorKeepChars == WordChars \cup SpaceChars \cup {",", ".", "-"}

\* the characters re.sub(r'[^a-z0-9-]', '-', author) keeps
SlugChars == LowerChars \cup DigitChars \cup {"-"}

\* the "Cognome, Nome" / "Nome Cognome" branch of parse_author_name
ReorderAuthor(author) ==
    IF Contains(author, << "," >>)
    THEN IF SplitCount(author, << "," >>) = 2
         THEN Strip(SplitFirst(author, << "," >>)) \o << "-" >>
              \o Strip(DropFirst(author, Find(author, << "," >>)))
         ELSE author
    ELSE LET parts == Words(author)
         IN  IF Len(parts) > 1
             THEN parts[Len(parts)] \o << "-" >>
                  \o Join(SubSeq(parts, 1, Len(parts) - 1), << "-" >>)
             ELSE author

parse_author_name(author) ==
    IF author = << >> THEN S_unknown
    ELSE
    LET a1 == KeepOnly(Strip(StrLower(author)), AuthorKeepChars)
        a2 == IF Contains(a1, << "," >>) THEN SplitFirst(a1, << "," >>) ELSE a1
        a3 == IF Contains(a2, S_and) THEN SplitFirst(a2, S_and) ELSE a2
        a4 == IF Contains(a3, << ";" >>) THEN SplitFirst(a3, << ";" >>) ELSE a3
        a5 == StripAcademicTitles(a4, academic_titles)
        a6 == ReorderAuthor(a5)
        a7 == ReplaceOutside(a6, SlugChars, "-")
        a8 == CollapseRuns(a7, "-")
    IN  StripChar(a8, "-")

\* the list stopwords of clean_title
stopwords ==
    { << "p", "r", "o", "c", "e", "e", "d", "i", "n", "g", "s" >>,
      << "c", "o", "n", "f", "e", "r", "e", "n", "c", "e" >>,
      << "j", "o", "u", "r", "n", "a", "l" >>,
      << "i", "n", "t", "e", "r", "n", "a", "t", "i", "o", "n", "a", "l" >>,
      << "w", "o", "r", "k", "s", "h", "o", "p" >>,
      << "s", "y", "m", "p", "o", "s", "i", "u", "m" >>,
      << "v", "o", "l", "u", "m", "e" >>,
      << "v", "o", "l" >>,
      << "p", "a", "r", "t" >> }

\* re.sub(r'(\d{4})', r'\1 ', title): a blank after each group of four
\* digits, matched left to right without overlap
RECURSIVE GroupDigitsBy4(_)
GroupDigitsBy4(s) ==
    IF s = << >> THEN << >>
    ELSE IF Len(s) >= 4 /\ \A i \in 1..4 : s[i] \in DigitChars
    THEN SubSeq(s, 1, 4) \o << " " >> \o GroupDigitsBy4(DropFirst(s, 4))
    ELSE << s[1] >> \o GroupDigitsBy4(Tail(s))

\* the loop that drops a word equal to the word kept just before it
RECURSIVE UniqueWords(_, _)
UniqueWords(words, kept) ==
    IF words = << >> THEN kept
    ELSE UniqueWords(Tail(words),
             IF kept = << >> \/ Head(words) # kept[Len(kept)]
             THEN Append(kept, Head(words))
             ELSE kept)

\* the characters re.sub(r'[^\w\s-]', ' ', title) keeps
TitleKeepChars == WordChars \cup SpaceChars \cup {"-"}

\* the characters re.sub(r'[^a-z0-9\s-]', '', title) keeps
TitleSlugChars == LowerChars \cup DigitChars \cup SpaceChars \cup {"-"}

clean_title(title) ==
    IF title = << >> THEN S_unknown
    ELSE
    LET t1 == ReplaceOutside(Strip(StrLower(title)), TitleKeepChars, " ")
        numeric == IsDigit(SelectSeq(t1, LAMBDA c : c # " "))
        t2 == IF Len(Words(t1)) > 4
              THEN Join(SelectSeq(Words(t1), LAMBDA w : w \notin stopwords),
                        << " " >>)
              ELSE t1
        t3 == Join(UniqueWords(Words(t2), << >>), << " " >>)
        w3 == Words(t3)
        t4 == IF Len(w3) > 8
              THEN Join(SubSeq(w3, 1, 4) \o << S_ellipsis >>
                        \o SubSeq(w3, Len(w3) - 3, Len(w3)), << " " >>)
              ELSE t3
        t5 == KeepOnly(t4, TitleSlugChars)
        t6 == ReplaceSpaceRuns(Strip(t5), << "-" >>)
        t7 == CollapseRuns(t6, "-")
    IN  IF numeric
        THEN S_doc \o Strip(GroupDigitsBy4(t1))
        ELSE StripChar(t7, "-")

(***************************************************************************)
(* Publication (the dataclass).  An Optional[str] field that is None is    *)
(* the empty string << >>: the source only ever tests these fields for     *)
(* truth, and None and '' are both false.  A missing Publication (None)    *)
(* is NoPublication.                                                       *)
(***************************************************************************)
Publication(title, authors, year, doi, isbn, publisher, abstract) ==
    [title |-> title, authors |-> authors, year |-> year, doi |-> doi,
     isbn |-> isbn, publisher |-> publisher, abstract |-> abstract]

NoPublication == [title |-> << >>, authors |-> << >>, year |-> << >>,
                  doi |-> << >>, isbn |-> << >>, publisher |-> << >>,
                  abstract |-> << >>, none |-> TRUE]

IsPublication(m) == m # NoPublication

(***************************************************************************)
(* Python floats.  A score is the IEEE-754 double reached by adding the    *)
(* doubles 0.3, 0.2 and 0.1 to 0.0, each sum rounded to nearest.  The      *)
(* double is written << n, e >>: e units in the last place away from the   *)
(* double nearest to n/10 (0.1 + 0.2 is << 3, 1 >>, 0.30000000000000004,   *)
(* not << 3, 0 >>, 0.3).  FloatDeviation[k][e + 2][n + 1] is the e of the  *)
(* rounded sum of << n, e >> and the double nearest to k/10.               *)
(***************************************************************************)
FloatDeviation ==
    << << << 0, 0, 0, -2, 0, 0, -1, -2, -1, -1, -1 >>,
          << 0, 0, 1, 0, 0, 0, 0, -1, 0, 0, 0 >>,
          << 0, 0, 1, 0, 1, 1, 1, 0, 1, 1, 1 >> >>,
       << << 0, 0, 0, -1, 0, 0, -2, -1, 0, -1, 0 >>,
          << 0, 1, 0, 0, 1, 0, 0, -1, 0, 0, 0 >>,
          << 0, 1, 0, 0, 1, 2, 0, 1, 1, 0, 1 >> >>,
       << << 0, -1, 0, -1, 0, -1, -1, -2, -1, 0, -1 >>,
          << 0, 0, 0, 0, 0, 0, -1, 0, 0, 0, 0 >>,
          << 0, 0, 0, 1, 1, 0, 1, 0, 0, 1, 1 >> >> >>

\* score += k/10
FloatAdd(x, k) == << x[1] + k, FloatDeviation[k][x[2] + 2][x[1] + 1] >>

\* x < y on doubles
FloatLess(x, y) == x[1] < y[1] \/ (x[1] = y[1] /\ x[2] < y[2])

\* the literals 0.0, 0.5 and 1.0
Float_0_0 == << 0, 0 >>
Float_0_5 == << 5, 0 >>
Float_1_0 == << 10, 0 >>

\* any(',' in author for author in metadata.authors)
AnyAuthorHasComma(authors) ==
    \E i \in 1..Len(authors) : Contains(authors[i], << "," >>)

\* a variant that scores a structured author below an unstructured one
evaluate_metadata_quality_low_comma(metadata) ==
    LET s1 == IF metadata.title # << >> /\ Len(metadata.title) > 5
              THEN FloatAdd(Float_0_0, 3) ELSE Float_0_0
        s2 == IF metadata.authors # << >>
              THEN IF AnyAuthorHasComma(metadata.authors)
                   THEN FloatAdd(s1, 1) ELSE FloatAdd(s1, 2)
              ELSE s1
        s3 == IF metadata.year # << >> /\ IsDigit(metadata.year)
                 /\ 1900 <= ToInt(metadata.year)
                 /\ ToInt(metadata.year) <= 2024
              THEN FloatAdd(s2, 2) ELSE s2
        s4 == IF metadata.doi # << >> THEN FloatAdd(s3, 1) ELSE s3
    IN  IF metadata.publisher # << >> THEN FloatAdd(s4, 1) ELSE s4

evaluate_metadata_quality(metadata) ==
    LET s1 == IF metadata.title # << >> /\ Len(metadata.title) > 5
              THEN FloatAdd(Float_0_0, 3) ELSE Float_0_0
        s2 == IF metadata.authors # << >>
              THEN IF AnyAuthorHasComma(metadata.authors)
                   THEN FloatAdd(s1, 3) ELSE FloatAdd(s1, 2)
              ELSE s1
        s3 == IF metadata.year # << >> /\ IsDigit(metadata.year)
                 /\ 1900 <= ToInt(metadata.year)
                 /\ ToInt(metadata.year) <= 2024
              THEN FloatAdd(s2, 2) ELSE s2
        s4 == IF metadata.doi # << >> THEN FloatAdd(s3, 1) ELSE s3
    IN  IF metadata.publisher # << >> THEN FloatAdd(s4, 1) ELSE s4

(***************************************************************************)
(* The destination of a document: the author directory under output_dir    *)
(* and the file name in it.                                                *)
(***************************************************************************)
\* the author key create_filename and create_author_directory both compute
AuthorKey(metadata) ==
    IF metadata.authors # << >> /\ metadata.authors[1] # << >>
    THEN parse_author_name(metadata.authors[1])
    ELSE S_unknown

create_filename(metadata) ==
    LET title == clean_title(metadata.title)
        author == AuthorKey(metadata)
        year == IF metadata.year # << >> /\ IsDigit(metadata.year)
                THEN metadata.year ELSE S_Unknown
        filename == year \o << "-" >> \o author \o << "-" >> \o title
    IN  StripChar(CollapseRuns(filename, "-"), "-") \o S_pdf

\* os.path.join(output_dir, author), relative to output_dir
create_author_directory(metadata) == AuthorKey(metadata)

\* os.path.join(author_dir, new_filename)
NewPath(metadata) ==
    create_author_directory(metadata) \o << "/" >> \o create_filename(metadata)

(***************************************************************************)
(* The batch: input paths, the suppression key and the sorted order.       *)
(***************************************************************************)
\* the most documents in a batch
MaxDocs == 2

\* the paths os.walk may find under input_dir (relative to it)
Path_p == << "p", ".", "p", "d", "f" >>
Path_p_2 == << "p", "-", "2", ".", "p", "d", "f" >>
Path_d_p_7 == << "d", "/", "p", "-", "7", ".", "p", "d", "f" >>
Path_q == << "q", ".", "p", "d", "f" >>
InputPaths == {Path_p, Path_p_2, Path_d_p_7, Path_q}

\* the position of the last c in s, 0 when absent (str.rfind, 1-based)
RFind(s, c) ==
    LET hits == {i \in 1..Len(s) : s[i] = c}
    IN  IF hits = {} THEN 0 ELSE CHOOSE i \in hits : \A j \in hits : j <= i

\* os.path.basename
Basename(path) == DropFirst(path, RFind(path, "/"))

\* os.path.splitext(name)[0]: the name up to its last dot, leading dots
\* not counting
SplitExtStem(name) ==
    IF \E i \in 1..(RFind(name, ".") - 1) : name[i] # "."
    THEN TakeFirst(name, RFind(name, ".") - 1)
    ELSE name

\* re.sub(r'-\d+$', '', base_name)
StripVariantSuffix(base_name) ==
    LET stem == RStripSet(base_name, DigitChars)
    IN  IF Len(stem) < Len(base_name) /\ stem # << >>
           /\ stem[Len(stem)] = "-"
        THEN TakeFirst(stem, Len(stem) - 1)
        ELSE base_name

\* base_name of process_directory, lines 174-175
SuppressionKey(pdf_path) ==
    StripVariantSuffix(SplitExtStem(Basename(pdf_path)))

\* the sequences that hold each path of the set once
Orderings(paths) ==
    {f \in [1..Cardinality(paths) -> paths] :
        \A i, j \in 1..Cardinality(paths) : i # j => f[i] # f[j]}

\* pdf_files.sort()
SortedFiles(paths) == CHOOSE f \in Orderings(paths) :
    \A i, j \in 1..Len(f) : i < j => StrLess(f[i], f[j])

(***************************************************************************)
(* What the document reader and the three services may answer.             *)
(***************************************************************************)
T_Paper_X == << "P", "a", "p", "e", "r", " ", "X" >>
T_Paper_Y == << "P", "a", "p", "e", "r", " ", "Y" >>
T_Index == << "I", "n", "d", "e", "x" >>
T_Ab == << "A", "b" >>
T_p == << "p" >>
A_John_Smith == << "J", "o", "h", "n", " ", "S", "m", "i", "t", "h" >>
A_Smith_John == << "S", "m", "i", "t", "h", ",", " ", "J", "o", "h", "n" >>
A_Jane_Doe == << "J", "a", "n", "e", " ", "D", "o", "e" >>
Y_2020 == << "2", "0", "2", "0" >>
Y_2021 == << "2", "0", "2", "1" >>
Y_None == << "N", "o", "n", "e" >>
Doi_x == << "1", "0", ".", "1", "/", "x" >>
Isbn_x == << "9", "7" >>
Publisher_x == << "P", "u", "b" >>
Abstract_x == << "a", "b", "s" >>

\* extract_metadata_from_pdf fills title, authors and year only
Local_title_only == Publication(T_Paper_X, << >>, S_Unknown, << >>, << >>, << >>, << >>)
Local_complete == Publication(T_Paper_X, << A_John_Smith >>, Y_2020, << >>, << >>, << >>, << >>)
Local_stem == Publication(T_p, << >>, S_Unknown, << >>, << >>, << >>, << >>)
LocalCandidates == {Local_title_only, Local_complete, Local_stem}

\* search_crossref fills title, authors, year, doi, publisher
Crossref_sparse == Publication(T_Index, << A_John_Smith >>, << >>, Doi_x, << >>, << >>, << >>)
Crossref_full == Publication(T_Paper_X, << A_John_Smith >>, Y_2020, Doi_x, << >>, Publisher_x, << >>)
\* search_semantic_scholar fills title, authors, year, abstract
Semantic_empty == Publication(T_Ab, << >>, Y_None, << >>, << >>, << >>, << >>)
Semantic_good == Publication(T_Paper_Y, << A_Smith_John >>, Y_2021, << >>, << >>, << >>, Abstract_x)
\* search_google_books fills title, authors, year, isbn, publisher
Google_sparse == Publication(T_Index, << A_Jane_Doe >>, << >>, << >>, Isbn_x, Publisher_x, << >>)

\* the services in the order of the list apis of search_metadata
apis == << "crossref", "semantic_scholar", "google_books" >>

ServiceItems(api) ==
    CASE api = "crossref" -> {Crossref_sparse, Crossref_full}
      [] api = "semantic_scholar" -> {Semantic_empty, Semantic_good}
      [] api = "google_books" -> {Google_sparse}

\* what requests.get and the parsing of its payload may come to: a network
\* error (an exception), a status other than 200, a payload that is not
\* the expected JSON (an exception), a 200 with no item, a 200 with an item
Item(pub) == [kind |-> "item", item |-> pub]
NoItem(kind) == [kind |-> kind, item |-> NoPublication]
Responses(api) ==
    {NoItem(k) : k \in {"network_error", "http_500", "malformed", "no_items"}}
    \cup {Item(pub) : pub \in ServiceItems(api)}

\* every Publication of the model's batches
Catalogue ==
    LocalCandidates \cup ServiceItems("crossref")
    \cup ServiceItems("semantic_scholar") \cup ServiceItems("google_books")

\* NewPath over the catalogue, computed once
DestinationTable == [m \in Catalogue |-> NewPath(m)]
Destination(m) == DestinationTable[m]

\* evaluate_metadata_quality over the catalogue, computed once
QualityTable == [m \in Catalogue |-> evaluate_metadata_quality(m)]
Quality(m) == QualityTable[m]

\* the value a search_* coroutine returns for a response
SearchResult(response) ==
    IF response.kind = "item" THEN response.item ELSE NoPublication

(***************************************************************************)
(* Time.  The clock time.time() is counted in ticks, TicksPerSecond to the *)
(* second; it never runs backwards, and time.sleep(d) returns after at     *)
(* least d.  Time passes while a coroutine sleeps and while a request is   *)
(* in flight.                                                              *)
(***************************************************************************)
\* self.min_request_interval, in seconds
min_request_interval == 1

\* the resolution of the clock
TicksPerSecond == 2

\* the longest a request takes, in ticks
MaxLatency == 3

\* the most time.sleep may sleep over, in ticks
MaxOversleep == 1

\* time.time() when the organizer is constructed: long after the epoch
StartTime == 10

Interval == min_request_interval * TicksPerSecond

\* a variant that never waits
SleepNever(current_time, last) == 0

\* lines 42-44: how long _rate_limit sleeps, 0 for no sleep
SleepDuration(current_time, last) ==
    IF current_time - last < Interval
    THEN Interval - (current_time - last)
    ELSE 0

(***************************************************************************)
(* The state.                                                              *)
(***************************************************************************)
VARIABLES
    input_dir,          \* the PDF paths under input_dir
    out_fs,             \* the files under output_dir: [path, src, state]
    pc,                 \* where process_directory / organize_pdf stands
    pdf_files,          \* process_directory: the sorted list of paths
    idx,                \* process_directory: the position of pdf_path in pdf_files
    successful,         \* process_directory: counter
    failed,             \* process_directory: counter
    processed_files,    \* process_directory: (pdf_path, metadata, new_path) triples
    processed_paths,    \* process_directory: the suppression keys filed
    metadata,           \* organize_pdf: the candidate held
    online_metadata,    \* organize_pdf: what search_metadata returned
    ret,                \* organize_pdf: the returned triple
    task_pc,            \* search_metadata: where each of the three coroutines stands
    running,            \* the coroutine the event loop is running, 0 for none
    current_time,       \* _rate_limit: current_time of each coroutine
    results,            \* search_metadata: the gathered results
    last_request_time,  \* MetadataFetcher.last_request_time
    now,                \* the clock
    latencies,          \* environment: how long a request may take
    oversleeps,         \* environment: how long time.sleep may sleep over
    outcome,            \* history: what became of each document so far
    local_metadata,     \* history: what local extraction gave for this document
    extracted,          \* history: whether local extraction ran for this document
    searched,           \* history: whether search_metadata ran for this document
    last_response,      \* history: the service that answered last, and its answer
    new_path,           \* organize_pdf: the destination path
    issue_last,         \* history: when the last request was issued, -1 for never
    norm_pc,            \* the normalizer under test: position
    norm_op,            \* the normalizer applied: "author" or "title"
    norm_in,            \* its input
    norm_out,           \* its result
    norm_again,         \* the result normalized once more
    q_pc,               \* the scoring under test: position
    q_pub,              \* the Publication scored
    q_score,            \* its score
    q_prev,             \* the score before the last signal was added
    x_pc,               \* the embedded-metadata reader under test: position
    x_doc,              \* the document it is given
    x_out,              \* what it returned
    script,             \* the rerun: what each document and service answers
    run,                \* the rerun: which call of process_directory this is
    first               \* the rerun: what the first call returned

fsVars == << input_dir, out_fs >>
loopVars == << pdf_files, idx, successful, failed, processed_files,
               processed_paths >>
docVars == << metadata, online_metadata, ret >>
taskVars == << task_pc, running, current_time, results >>
clockVars == << last_request_time, now >>
envVars == << latencies, oversleeps >>
docHistory == << local_metadata, extracted, searched, last_response,
                 new_path >>
historyVars == << outcome, docHistory, issue_last >>
batchVars == << fsVars, pc, loopVars, docVars, taskVars, clockVars, envVars,
                historyVars >>
normVars == << norm_pc, norm_op, norm_in, norm_out, norm_again >>
scoreVars == << q_pc, q_pub, q_score, q_prev >>
extractVars == << x_pc, x_doc, x_out >>
rerunVars == << script, run, first >>
vars == << batchVars, normVars, scoreVars, extractVars, rerunVars >>

NoRet == [success |-> FALSE, metadata |-> NoPublication, new_path |-> << >>]
NoResponse == [api |-> 0, response |-> NoItem("none")]
NoResults == [i \in 1..3 |-> NoPublication]

\* the locals of organize_pdf and the history of one document, unset
DocReset ==
    /\ metadata' = NoPublication
    /\ online_metadata' = NoPublication
    /\ ret' = NoRet
    /\ results' = NoResults
    /\ local_metadata' = NoPublication
    /\ extracted' = FALSE
    /\ searched' = FALSE
    /\ last_response' = NoResponse
    /\ new_path' = << >>

\* the organizer as constructed over a directory, before process_directory
BatchInit(dir) ==
    /\ input_dir = dir
    /\ out_fs = {}
    /\ successful = 0
    /\ failed = 0
    /\ processed_files = << >>
    /\ processed_paths = {}
    /\ metadata = NoPublication
    /\ online_metadata = NoPublication
    /\ ret = NoRet
    /\ running = 0
    /\ current_time = [i \in 1..3 |-> 0]
    /\ results = NoResults
    /\ last_request_time = 0
    /\ now = StartTime
    /\ outcome = << >>
    /\ local_metadata = NoPublication
    /\ extracted = FALSE
    /\ searched = FALSE
    /\ last_response = NoResponse
    /\ new_path = << >>
    /\ issue_last = -1

NormIdle ==
    /\ norm_pc = "idle"
    /\ norm_op = "none"
    /\ norm_in = << >>
    /\ norm_out = << >>
    /\ norm_again = << >>

ScoreIdle ==
    /\ q_pc = "idle"
    /\ q_pub = NoPublication
    /\ q_score = Float_0_0
    /\ q_prev = Float_0_0

NoDocument ==
    [readable |-> FALSE, info |-> FALSE, Title |-> << >>, Author |-> << >>,
     CreationDate |-> << >>, ModDate |-> << >>, path |-> << >>]

ExtractIdle ==
    /\ x_pc = "idle"
    /\ x_doc = NoDocument
    /\ x_out = NoPublication

NoFirst ==
    [pdf_files |-> << >>, outcome |-> << >>, successful |-> 0, failed |-> 0,
     processed_files |-> << >>]

RerunIdle ==
    /\ script = << >>
    /\ run = 1
    /\ first = NoFirst

\* a batch of at most MaxDocs documents; every request takes one tick and
\* no sleep runs over (SpecLookup is the specification that varies the timing)
Init ==
    /\ \E dir \in SUBSET InputPaths :
          /\ Cardinality(dir) <= MaxDocs
          /\ BatchInit(dir)
    /\ pc = "start"
    /\ pdf_files = << >>
    /\ idx = 0
    /\ task_pc = [i \in 1..3 |-> "idle"]
    /\ latencies = {1}
    /\ oversleeps = {0}
    /\ NormIdle
    /\ ScoreIdle
    /\ ExtractIdle
    /\ RerunIdle

(***************************************************************************)
(* process_directory.                                                      *)
(***************************************************************************)
pdf_path == pdf_files[idx]

\* a variant that leaves the list in the order os.walk gave
sort_skipped(files) == files

\* line 168: pdf_files.sort()
sort(files) == SortedFiles({files[i] : i \in 1..Len(files)})

\* lines 149-171: walk input_dir in the order the file system lists it,
\* sort, start the loop
StartBatch ==
    /\ pc = "start"
    /\ \E files \in Orderings(input_dir) : pdf_files' = sort(files)
    /\ idx' = 1
    /\ pc' = "loop"
    /\ UNCHANGED << fsVars, successful, failed, processed_files,
                    processed_paths, docVars, taskVars, clockVars, envVars,
                    historyVars, normVars, scoreVars, extractVars,
                    rerunVars >>

\* line 177
IsDuplicateVariant(base_name, processed) == base_name \in processed

\* lines 177-179: a variant of a key already filed is skipped
SkipDuplicate ==
    /\ pc = "loop"
    /\ idx <= Len(pdf_files)
    /\ IsDuplicateVariant(SuppressionKey(pdf_path), processed_paths)
    /\ outcome' = Append(outcome, "skipped")
    /\ idx' = idx + 1
    /\ UNCHANGED << fsVars, pc, pdf_files, successful, failed,
                    processed_files, processed_paths, docVars, taskVars,
                    clockVars, envVars, docHistory, issue_last, normVars,
                    scoreVars, extractVars,
                    rerunVars >>

\* line 181: organize_pdf is called for pdf_path
BeginOrganize ==
    /\ pc = "loop"
    /\ idx <= Len(pdf_files)
    /\ ~IsDuplicateVariant(SuppressionKey(pdf_path), processed_paths)
    /\ pc' = "exists"
    /\ UNCHANGED << fsVars, loopVars, docVars, taskVars, clockVars, envVars,
                    historyVars, normVars, scoreVars, extractVars,
                    rerunVars >>

\* line 182
Filed(r) == r.success /\ IsPublication(r.metadata) /\ r.new_path # << >>

\* a variant that remembers the key of a document that failed too
KeysAfterAlways(r, keys, base_name) == keys \cup {base_name}

\* line 185
KeysAfter(r, keys, base_name) ==
    IF Filed(r) THEN keys \cup {base_name} ELSE keys

\* a variant that does not count a failure
FailedAfterLost(r, n) == n

\* lines 186-187
FailedAfter(r, n) == IF Filed(r) THEN n ELSE n + 1

\* lines 182-187: organize_pdf has returned (its locals are gone) and its
\* result is counted
RecordResult ==
    /\ pc = "record"
    /\ successful' = IF Filed(ret) THEN successful + 1 ELSE successful
    /\ processed_files' =
          IF Filed(ret)
          THEN Append(processed_files, << pdf_path, ret.metadata, ret.new_path >>)
          ELSE processed_files
    /\ processed_paths' = KeysAfter(ret, processed_paths, SuppressionKey(pdf_path))
    /\ failed' = FailedAfter(ret, failed)
    /\ outcome' = Append(outcome, IF Filed(ret) THEN "succeeded" ELSE "failed")
    /\ idx' = idx + 1
    /\ pc' = "loop"
    /\ DocReset
    /\ UNCHANGED << fsVars, pdf_files, task_pc, running, current_time,
                    clockVars, envVars, issue_last, normVars, scoreVars, extractVars,
                    rerunVars >>

\* lines 189-190: the loop is over
FinishBatch ==
    /\ pc = "loop"
    /\ idx > Len(pdf_files)
    /\ pc' = "done"
    /\ UNCHANGED << fsVars, loopVars, docVars, taskVars, clockVars, envVars,
                    historyVars, normVars, scoreVars, extractVars,
                    rerunVars >>

(***************************************************************************)
(* organize_pdf, up to the decision to search online.                      *)
(***************************************************************************)
\* lines 486-488: the file is gone since the walk
FileNotFound ==
    /\ pc = "exists"
    /\ ret' = NoRet
    /\ pc' = "record"
    /\ UNCHANGED << fsVars, loopVars, metadata, online_metadata, taskVars,
                    clockVars, envVars, historyVars, normVars, scoreVars, extractVars,
                    rerunVars >>

\* line 486: the file is there
FileFound ==
    /\ pc = "exists"
    /\ pc' = "extract"
    /\ UNCHANGED << fsVars, loopVars, docVars, taskVars, clockVars, envVars,
                    historyVars, normVars, scoreVars, extractVars,
                    rerunVars >>

\* line 491: extract_metadata_from_pdf gives a Publication, or None when it
\* caught an exception
ExtractMetadata ==
    /\ pc = "extract"
    /\ \E m \in LocalCandidates \cup {NoPublication} :
          /\ metadata' = m
          /\ local_metadata' = m
    /\ extracted' = TRUE
    /\ pc' = "decide"
    /\ UNCHANGED << fsVars, loopVars, online_metadata, ret, taskVars,
                    clockVars, envVars, outcome, searched, last_response,
                    new_path, issue_last, normVars, scoreVars, extractVars,
                    rerunVars >>

\* a variant that always searches online
NeedsOnlineSearchAlways(m) == TRUE

\* line 494
NeedsOnlineSearch(m) ==
    IF IsPublication(m) THEN FloatLess(Quality(m), Float_0_5) ELSE TRUE

\* lines 494-497 and 246: search_metadata is called, the three coroutines
\* are created
StartSearch ==
    /\ pc = "decide"
    /\ NeedsOnlineSearch(metadata)
    /\ task_pc' = [i \in 1..3 |-> "ready"]
    /\ searched' = TRUE
    /\ pc' = "search"
    /\ UNCHANGED << fsVars, loopVars, docVars, running, current_time,
                    results, clockVars, envVars, outcome, local_metadata,
                    extracted, last_response, new_path, issue_last,
                    normVars, scoreVars, extractVars,
                    rerunVars >>

\* line 494: the local candidate is good enough
SkipSearch ==
    /\ pc = "decide"
    /\ ~NeedsOnlineSearch(metadata)
    /\ pc' = "file"
    /\ UNCHANGED << fsVars, loopVars, docVars, taskVars, clockVars, envVars,
                    historyVars, normVars, scoreVars, extractVars,
                    rerunVars >>

(***************************************************************************)
(* MetadataFetcher: _rate_limit and the three search_* coroutines.  The    *)
(* coroutines hold no await, so the event loop runs each from its first    *)
(* line to its return before it starts the next, in the order of apis.     *)
(***************************************************************************)
\* a variant in which the event loop starts a coroutine while another is
\* suspended halfway
MayStartAnytime(i, current, states) == states[i] = "ready"

\* lines 246-247: asyncio.gather runs the coroutines in the order of apis;
\* a coroutine that holds no await is run to its return before the next
\* is started
MayStart(i, current, states) ==
    /\ current = 0
    /\ states[i] = "ready"
    /\ \A j \in 1..(i - 1) : states[j] = "done"

\* line 41: current_time = time.time()
RateLimitRead(i) ==
    /\ pc = "search"
    /\ MayStart(i, running, task_pc)
    /\ running' = i
    /\ current_time' = [current_time EXCEPT ![i] = now]
    /\ task_pc' = [task_pc EXCEPT ![i] = "check"]
    /\ UNCHANGED << fsVars, pc, loopVars, docVars, results, clockVars,
                    envVars, historyVars, normVars, scoreVars, extractVars,
                    rerunVars >>

\* lines 42-44: too early, sleep the rest of the interval
RateLimitSleep(i) ==
    /\ running = i
    /\ task_pc[i] = "check"
    /\ SleepDuration(current_time[i], last_request_time) > 0
    /\ \E over \in oversleeps :
          now' = now + SleepDuration(current_time[i], last_request_time) + over
    /\ task_pc' = [task_pc EXCEPT ![i] = "stamp"]
    /\ UNCHANGED << fsVars, pc, loopVars, docVars, running, current_time,
                    results, last_request_time, envVars, historyVars,
                    normVars, scoreVars, extractVars,
                    rerunVars >>

\* line 43: the interval has passed, no sleep
RateLimitNoWait(i) ==
    /\ running = i
    /\ task_pc[i] = "check"
    /\ SleepDuration(current_time[i], last_request_time) <= 0
    /\ task_pc' = [task_pc EXCEPT ![i] = "stamp"]
    /\ UNCHANGED << fsVars, pc, loopVars, docVars, running, current_time,
                    results, clockVars, envVars, historyVars, normVars,
                    scoreVars, extractVars,
                    rerunVars >>

\* line 45: self.last_request_time = time.time()
RateLimitStamp(i) ==
    /\ running = i
    /\ task_pc[i] = "stamp"
    /\ last_request_time' = now
    /\ task_pc' = [task_pc EXCEPT ![i] = "request"]
    /\ UNCHANGED << fsVars, pc, loopVars, docVars, running, current_time,
                    results, now, envVars, historyVars, normVars, scoreVars, extractVars,
                    rerunVars >>

\* lines 49-71, 75-95, 99-116: requests.get is issued, the answer mapped to
\* a Publication or None, the coroutine returns
Request(i) ==
    /\ running = i
    /\ task_pc[i] = "request"
    /\ issue_last' = now
    /\ \E response \in Responses(apis[i]) :
          /\ last_response' = [api |-> i, response |-> response]
          /\ results' = [results EXCEPT ![i] = SearchResult(response)]
    /\ \E latency \in latencies : now' = now + latency
    /\ task_pc' = [task_pc EXCEPT ![i] = "done"]
    /\ running' = 0
    /\ UNCHANGED << fsVars, pc, loopVars, docVars, current_time,
                    last_request_time, envVars, outcome, local_metadata,
                    extracted, searched, new_path, normVars, scoreVars, extractVars,
                    rerunVars >>

(***************************************************************************)
(* search_metadata: the choice among the gathered results.                 *)
(***************************************************************************)
\* lines 252-257: the loop over results from position i on
RECURSIVE BestFrom(_, _, _, _)
BestFrom(rs, i, best_metadata, best_score) ==
    IF i > Len(rs) THEN best_metadata
    ELSE IF IsPublication(rs[i])
            /\ FloatLess(best_score, Quality(rs[i]))
    THEN BestFrom(rs, i + 1, rs[i], Quality(rs[i]))
    ELSE BestFrom(rs, i + 1, best_metadata, best_score)

\* lines 249-259
BestMetadata(rs) == BestFrom(rs, 1, NoPublication, Float_0_0)

\* lines 247-259: every coroutine has returned, the best result is returned
SelectBest ==
    /\ pc = "search"
    /\ \A i \in 1..3 : task_pc[i] = "done"
    /\ online_metadata' = BestMetadata(results)
    /\ task_pc' = [i \in 1..3 |-> "idle"]
    /\ last_response' = NoResponse
    /\ pc' = "merge"
    /\ UNCHANGED << fsVars, loopVars, metadata, ret, running, current_time,
                    results, clockVars, envVars, outcome, local_metadata,
                    extracted, searched, new_path, issue_last,
                    normVars, scoreVars, extractVars,
                    rerunVars >>

\* lines 498-499
OnlineReplaces(online, local) ==
    IF IsPublication(online)
    THEN IF IsPublication(local)
         THEN FloatLess(Quality(local), Quality(online))
         ELSE TRUE
    ELSE FALSE

\* lines 498-500
Merge ==
    /\ pc = "merge"
    /\ metadata' = IF OnlineReplaces(online_metadata, metadata)
                   THEN online_metadata ELSE metadata
    /\ pc' = "file"
    /\ UNCHANGED << fsVars, loopVars, online_metadata, ret, taskVars,
                    clockVars, envVars, historyVars, normVars, scoreVars, extractVars,
                    rerunVars >>

(***************************************************************************)
(* organize_pdf: filing.  shutil.copy2 opens the destination for writing,  *)
(* copies the bytes, then copies the file's times and mode; it may raise   *)
(* before the destination is opened, while the bytes are written, or       *)
(* after them.  No except clause removes what was written.                 *)
(***************************************************************************)
WriteFile(fs, path, src, state) ==
    {f \in fs : f.path # path}
    \cup {[path |-> path, src |-> src, state |-> state]}

\* lines 504-506
NoMetadata ==
    /\ pc = "file"
    /\ ~IsPublication(metadata)
    /\ ret' = NoRet
    /\ pc' = "record"
    /\ UNCHANGED << fsVars, loopVars, metadata, online_metadata, taskVars,
                    clockVars, envVars, historyVars, normVars, scoreVars, extractVars,
                    rerunVars >>

\* what the filing actions leave alone
FilingUnchanged ==
    UNCHANGED << input_dir, loopVars, metadata, online_metadata, taskVars,
                 clockVars, envVars, outcome, local_metadata, extracted,
                 searched, last_response, issue_last, normVars, scoreVars, extractVars,
                    rerunVars >>

\* lines 510-512: new_path is computed
ComputePath ==
    /\ pc = "file"
    /\ IsPublication(metadata)
    /\ new_path' = Destination(metadata)
    /\ pc' = "copy"
    /\ UNCHANGED << out_fs, ret >>
    /\ FilingUnchanged

\* lines 510, 478, 519-521: os.makedirs of the author directory raises
MakeDirFails ==
    /\ pc = "file"
    /\ IsPublication(metadata)
    /\ ret' = NoRet
    /\ pc' = "record"
    /\ UNCHANGED << out_fs, new_path >>
    /\ FilingUnchanged

\* lines 515-517: the copy completes
CopyDone ==
    /\ pc = "copy"
    /\ out_fs' = WriteFile(out_fs, new_path, pdf_path, "complete")
    /\ ret' = [success |-> TRUE, metadata |-> metadata, new_path |-> new_path]
    /\ pc' = "record"
    /\ UNCHANGED new_path
    /\ FilingUnchanged

\* lines 515, 519-521: shutil.copy2 raises before it opens the destination
CopyFailsBeforeWrite ==
    /\ pc = "copy"
    /\ out_fs' = out_fs
    /\ ret' = NoRet
    /\ pc' = "record"
    /\ UNCHANGED new_path
    /\ FilingUnchanged

\* lines 515, 519-521: shutil.copy2 raises while it writes the bytes
CopyFailsPartway ==
    /\ pc = "copy"
    /\ out_fs' = WriteFile(out_fs, new_path, pdf_path, "partial")
    /\ ret' = NoRet
    /\ pc' = "record"
    /\ UNCHANGED new_path
    /\ FilingUnchanged

\* lines 515, 519-521: shutil.copy2 raises after the bytes, copying the
\* file's times and mode
CopyFailsAfterData ==
    /\ pc = "copy"
    /\ out_fs' = WriteFile(out_fs, new_path, pdf_path, "complete")
    /\ ret' = NoRet
    /\ pc' = "record"
    /\ UNCHANGED new_path
    /\ FilingUnchanged

Next ==
    \/ StartBatch
    \/ SkipDuplicate
    \/ BeginOrganize
    \/ RecordResult
    \/ FinishBatch
    \/ FileNotFound
    \/ FileFound
    \/ ExtractMetadata
    \/ StartSearch
    \/ SkipSearch
    \/ \E i \in 1..3 : RateLimitRead(i)
    \/ \E i \in 1..3 : RateLimitSleep(i)
    \/ \E i \in 1..3 : RateLimitNoWait(i)
    \/ \E i \in 1..3 : RateLimitStamp(i)
    \/ \E i \in 1..3 : Request(i)
    \/ SelectBest
    \/ Merge
    \/ NoMetadata
    \/ ComputePath
    \/ MakeDirFails
    \/ CopyDone
    \/ CopyFailsBeforeWrite
    \/ CopyFailsPartway
    \/ CopyFailsAfterData

Spec == Init /\ [][Next]_vars

(***************************************************************************)
(* The lookup client on its own: search_metadata called for one document   *)
(* after another, every request taking any time up to MaxLatency and       *)
(* every sleep running over by up to MaxOversleep.                         *)
(***************************************************************************)
\* lines 172-181, 486-497: organize_pdf of the next document reaches
\* search_metadata, some time after the last search returned
NextDocumentSearch ==
    /\ pc = "merge"
    /\ idx < MaxDocs
    /\ idx' = idx + 1
    /\ \E elapsed \in latencies : now' = now + elapsed
    /\ task_pc' = [i \in 1..3 |-> "ready"]
    /\ results' = NoResults
    /\ online_metadata' = NoPublication
    /\ pc' = "search"
    /\ UNCHANGED << fsVars, pdf_files, successful, failed, processed_files,
                    processed_paths, metadata, ret, running, current_time,
                    last_request_time, envVars, historyVars, normVars,
                    scoreVars, extractVars,
                    rerunVars >>

\* the first document stands at line 497: its coroutines are created
InitLookup ==
    /\ BatchInit(InputPaths)
    /\ pdf_files = SortedFiles(InputPaths)
    /\ idx = 1
    /\ pc = "search"
    /\ task_pc = [i \in 1..3 |-> "ready"]
    /\ latencies = 0..MaxLatency
    /\ oversleeps = 0..MaxOversleep
    /\ NormIdle
    /\ ScoreIdle
    /\ ExtractIdle
    /\ RerunIdle

NextLookup ==
    \/ \E i \in 1..3 : RateLimitRead(i)
    \/ \E i \in 1..3 : RateLimitSleep(i)
    \/ \E i \in 1..3 : RateLimitNoWait(i)
    \/ \E i \in 1..3 : RateLimitStamp(i)
    \/ \E i \in 1..3 : Request(i)
    \/ SelectBest
    \/ NextDocumentSearch

SpecLookup == InitLookup /\ [][NextLookup]_vars

(***************************************************************************)
(* The identity normalizer on its own: parse_author_name and clean_title   *)
(* applied to a string, and once more to the result.                       *)
(***************************************************************************)
\* the longest author and title strings enumerated in full
MaxAuthorLen == 4
MaxTitleLen == 4

StringsUpTo(alphabet, n) == UNION {[1..k -> alphabet] : k \in 0..n}

AuthorAlphabet == {"D", "r", "a", " ", ",", "."}
TitleAlphabet == {"1", "a", " ", "-", "."}

A_Dr_Drake == << "D", "r", ".", " ", "D", "r", "a", "k", "e" >>
A_Andrew_Drake == << "A", "n", "d", "r", "e", "w", " ", "D", "r", "a", "k", "e" >>
A_Prof_Profeta == << "P", "r", "o", "f", ".", " ", "P", "r", "o", "f", "e", "t", "a" >>
T_Proceedings == << "P", "r", "o", "c", "e", "e", "d", "i", "n", "g", "s", " ", "o", "f", " ", "t", "h", "e", " ", "I", "n", "t", "e", "r", "n", "a", "t", "i", "o", "n", "a", "l", " ", "W", "o", "r", "k", "s", "h", "o", "p", " ", "o", "n", " ", "W", "i", "d", "g", "e", "t", "s" >>
T_Digits == << "1", "2", "3", "4", "5", "6", "7", "8" >>
T_Ten_Words == << "a", " ", "b", " ", "c", " ", "d", " ", "e", " ", "f", " ", "g", " ", "h", " ", "i", " ", "j" >>
K_smith_john == << "s", "m", "i", "t", "h", "-", "j", "o", "h", "n" >>

AuthorInputs ==
    {A_Smith_John, A_John_Smith, A_Jane_Doe, A_Dr_Drake, A_Andrew_Drake,
     A_Prof_Profeta}
    \cup StringsUpTo(AuthorAlphabet, MaxAuthorLen)

TitleInputs ==
    {T_Paper_X, T_Proceedings, T_Digits, T_Ten_Words}
    \cup StringsUpTo(TitleAlphabet, MaxTitleLen)

BatchIdle ==
    /\ BatchInit({})
    /\ pc = "start"
    /\ pdf_files = << >>
    /\ idx = 0
    /\ task_pc = [i \in 1..3 |-> "idle"]
    /\ latencies = {1}
    /\ oversleeps = {0}

InitNorm ==
    /\ BatchIdle
    /\ ScoreIdle
    /\ ExtractIdle
    /\ RerunIdle
    /\ norm_pc = "start"
    /\ \/ norm_op = "author" /\ norm_in \in AuthorInputs
       \/ norm_op = "title" /\ norm_in \in TitleInputs
    /\ norm_out = << >>
    /\ norm_again = << >>

\* the normalizer for each kind of key
Normalize(op, s) ==
    IF op = "author" THEN parse_author_name(s) ELSE clean_title(s)

NormalizeAuthor ==
    /\ norm_pc = "start"
    /\ norm_op = "author"
    /\ norm_out' = parse_author_name(norm_in)
    /\ norm_pc' = "once"
    /\ UNCHANGED << batchVars, scoreVars, extractVars, rerunVars,
                    norm_op, norm_in, norm_again >>

NormalizeTitle ==
    /\ norm_pc = "start"
    /\ norm_op = "title"
    /\ norm_out' = clean_title(norm_in)
    /\ norm_pc' = "once"
    /\ UNCHANGED << batchVars, scoreVars, extractVars, rerunVars,
                    norm_op, norm_in, norm_again >>

\* the key is normalized once more
NormalizeAgain ==
    /\ norm_pc = "once"
    /\ norm_again' = Normalize(norm_op, norm_out)
    /\ norm_pc' = "twice"
    /\ UNCHANGED << batchVars, scoreVars, extractVars, rerunVars,
                    norm_op, norm_in, norm_out >>

NextNorm == NormalizeAuthor \/ NormalizeTitle \/ NormalizeAgain

SpecNorm == InitNorm /\ [][NextNorm]_vars

(***************************************************************************)
(* The scoring on its own: evaluate_metadata_quality applied to a          *)
(* Publication, and again after one more signal is added to it.            *)
(***************************************************************************)
Y_1899 == << "1", "8", "9", "9" >>
Y_1900 == << "1", "9", "0", "0" >>
Y_2024 == << "2", "0", "2", "4" >>
Y_2025 == << "2", "0", "2", "5" >>

ScoredTitles == {<< >>, T_Index, T_Paper_X}
ScoredAuthors == {<< >>, << A_John_Smith >>, << A_Smith_John >>,
                  << A_John_Smith, A_Smith_John >>}
ScoredYears == {<< >>, S_Unknown, Y_1899, Y_1900, Y_2024, Y_2025}

\* the signals of evaluate_metadata_quality, as tests on a Publication
HasTitleSignal(m) == m.title # << >> /\ Len(m.title) > 5
HasAuthors(m) == m.authors # << >>
HasCommaAuthor(m) == AnyAuthorHasComma(m.authors)
HasYearSignal(m) ==
    m.year # << >> /\ IsDigit(m.year)
    /\ 1900 <= ToInt(m.year) /\ ToInt(m.year) <= 2024

\* the Publications that are m with one more signal and nothing less
OneMoreSignal(m) ==
    {[m EXCEPT !.title = T_Paper_X] : x \in {1} \cap {IF HasTitleSignal(m) THEN 0 ELSE 1}}
    \cup {[m EXCEPT !.authors = << A_John_Smith >>] : x \in {1} \cap {IF HasAuthors(m) THEN 0 ELSE 1}}
    \cup {[m EXCEPT !.authors = Append(m.authors, A_Smith_John)] :
             x \in {1} \cap {IF HasCommaAuthor(m) THEN 0 ELSE 1}}
    \cup {[m EXCEPT !.year = y] :
             y \in {Y_1900, Y_2024} \cap (IF HasYearSignal(m) THEN {} ELSE {Y_1900, Y_2024})}
    \cup {[m EXCEPT !.doi = Doi_x] : x \in {1} \cap {IF m.doi # << >> THEN 0 ELSE 1}}
    \cup {[m EXCEPT !.publisher = Publisher_x] :
             x \in {1} \cap {IF m.publisher # << >> THEN 0 ELSE 1}}

InitScore ==
    /\ BatchIdle
    /\ NormIdle
    /\ ExtractIdle
    /\ RerunIdle
    /\ q_pc = "start"
    /\ \E t \in ScoredTitles, a \in ScoredAuthors, y \in ScoredYears,
          d \in {<< >>, Doi_x}, p \in {<< >>, Publisher_x} :
          q_pub = Publication(t, a, y, d, << >>, p, << >>)
    /\ q_score = Float_0_0
    /\ q_prev = Float_0_0

\* the Publication is scored
Score ==
    /\ q_pc \in {"start", "added"}
    /\ q_score' = evaluate_metadata_quality(q_pub)
    /\ q_pc' = IF q_pc = "start" THEN "scored" ELSE "rescored"
    /\ UNCHANGED << batchVars, normVars, extractVars, rerunVars, q_pub, q_prev >>

\* a Publication with one more signal takes its place
AddSignal ==
    /\ q_pc \in {"scored", "rescored"}
    /\ q_pub' \in OneMoreSignal(q_pub)
    /\ q_prev' = q_score
    /\ q_pc' = "added"
    /\ UNCHANGED << batchVars, normVars, extractVars, rerunVars, q_score >>

NextScore == Score \/ AddSignal

SpecScore == InitScore /\ [][NextScore]_vars

(***************************************************************************)
(* The embedded-metadata reader: extract_metadata_from_pdf.  A document is *)
(* what open / PdfReader / pdf.metadata give for it: whether it can be     *)
(* read, whether it has an information dictionary, and the four properties *)
(* the function looks at (an absent property is the empty string).         *)
(***************************************************************************)
Document(readable, info, Title, Author, CreationDate, ModDate, path) ==
    [readable |-> readable, info |-> info, Title |-> Title,
     Author |-> Author, CreationDate |-> CreationDate, ModDate |-> ModDate,
     path |-> path]

\* s[i:i+n] is n decimal digits
DigitsAt(s, i, n) ==
    /\ i >= 1
    /\ i + n - 1 <= Len(s)
    /\ \A k \in i..(i + n - 1) : s[k] \in DigitChars

\* the least element of a non-empty set of positions
Leftmost(positions) == CHOOSE i \in positions : \A j \in positions : i <= j

\* re.sub(r'\(\d{4}\)', '', title)
RECURSIVE RemoveParenYear(_)
RemoveParenYear(s) ==
    IF s = << >> THEN << >>
    ELSE IF s[1] = "(" /\ DigitsAt(s, 2, 4) /\ Len(s) >= 6 /\ s[6] = ")"
         THEN RemoveParenYear(DropFirst(s, 6))
         ELSE << s[1] >> \o RemoveParenYear(Tail(s))

\* re.sub(r'^\d+[-_]', '', title)
StripLeadingNumber(s) ==
    LET rest == LStripSet(s, DigitChars)
    IN  IF Len(rest) < Len(s) /\ rest # << >> /\ rest[1] \in {"-", "_"}
        THEN Tail(rest)
        ELSE s

\* lines 298-303: the title derived from the file name
TitleFromPath(path) ==
    Strip(StripLeadingNumber(RemoveParenYear(SplitExtStem(Basename(path)))))

\* group(1) of re.search(r'by\s+([^,\n]+)', title), << >> for no match
AuthorAfterBy(s) ==
    LET \* the group when the match starts at i, << >> when it cannot
        GroupAt(i) ==
            IF ~(i + 2 <= Len(s) /\ s[i] = "b" /\ s[i + 1] = "y"
                 /\ s[i + 2] \in SpaceChars)
            THEN << >>
            ELSE LET after == DropFirst(s, i + 1)
                     rest == LStripSet(after, SpaceChars)
                     blanks == Len(after) - Len(rest)
                 IN  IF rest # << >> /\ rest[1] # ","
                     THEN SplitFirst(rest, << "," >>)
                     ELSE IF blanks >= 2 THEN << " " >>
                     ELSE << >>
        starts == {i \in 1..Len(s) : GroupAt(i) # << >>}
    IN  IF starts = {} THEN << >> ELSE GroupAt(Leftmost(starts))

\* group(1) of re.search(r'([^-]+)\s*-\s*', title), << >> for no match
AuthorBeforeDash(s) ==
    LET starts == {i \in 1..Len(s) :
                      s[i] # "-" /\ \E k \in (i + 1)..Len(s) : s[k] = "-"}
    IN  IF starts = {} THEN << >>
        ELSE SplitFirst(DropFirst(s, Leftmost(starts) - 1), << "-" >>)

\* group(1) of re.search(r'^([^,]+),\s*([^,]+)', title), << >> for no match
AuthorBeforeComma(s) ==
    LET k == Find(s, << "," >>)
    IN  IF k >= 2 /\ k < Len(s) /\ s[k + 1] # ","
        THEN TakeFirst(s, k - 1)
        ELSE << >>

\* lines 309-318: the first author pattern that matches the title
AuthorFromTitle(title) ==
    IF AuthorAfterBy(title) # << >> THEN AuthorAfterBy(title)
    ELSE IF AuthorBeforeDash(title) # << >> THEN AuthorBeforeDash(title)
    ELSE AuthorBeforeComma(title)

\* group(1) of re.search(r'D:(\d{4})', value), << >> for no match
YearOfDate(s) ==
    LET starts == {i \in 1..Len(s) :
                      /\ i + 1 <= Len(s)
                      /\ s[i] = "D"
                      /\ s[i + 1] = ":"
                      /\ DigitsAt(s, i + 2, 4)}
    IN  IF starts = {} THEN << >>
        ELSE SubSeq(s, Leftmost(starts) + 2, Leftmost(starts) + 5)

\* lines 323-329: the first date field that is set decides; a field that is
\* set and holds no D:YYYY leaves the turn to the next
YearOfDateFields(fields) ==
    IF fields = << >> THEN << >>
    ELSE IF YearOfDate(fields[1]) # << >> THEN YearOfDate(fields[1])
    ELSE IF Len(fields) > 1 THEN YearOfDate(fields[2])
    ELSE << >>

\* group(1) of re.search(r'\((\d{4})\)', s), << >> for no match
YearInParens(s) ==
    LET starts == {i \in 1..Len(s) :
                      /\ i + 5 <= Len(s)
                      /\ s[i] = "("
                      /\ DigitsAt(s, i + 1, 4)
                      /\ s[i + 5] = ")"}
    IN  IF starts = {} THEN << >>
        ELSE SubSeq(s, Leftmost(starts) + 1, Leftmost(starts) + 4)

\* the characters of the class [\\_-] that the model has
YearDelimiters == {"_", "-"}

\* group(1) of re.search(r'[\\_-](\d{4})[\\_-]', s), << >> for no match
YearBetweenDelimiters(s) ==
    LET starts == {i \in 1..Len(s) :
                      /\ i + 5 <= Len(s)
                      /\ s[i] \in YearDelimiters
                      /\ DigitsAt(s, i + 1, 4)
                      /\ s[i + 5] \in YearDelimiters}
    IN  IF starts = {} THEN << >>
        ELSE SubSeq(s, Leftmost(starts) + 1, Leftmost(starts) + 4)

\* \b at the gap before s[i] (i = Len(s) + 1 for the end of s)
WordBoundary(s, i) ==
    LET before == i > 1 /\ s[i - 1] \in WordChars
        after == i <= Len(s) /\ s[i] \in WordChars
    IN  before # after

\* group(1) of re.search(r'\b(19|20)\d{2}\b', s), << >> for no match: the
\* group holds the century only
CenturyOfYear(s) ==
    LET starts == {i \in 1..Len(s) :
                      /\ i + 3 <= Len(s)
                      /\ SubSeq(s, i, i + 1) \in {<< "1", "9" >>, << "2", "0" >>}
                      /\ DigitsAt(s, i + 2, 2)
                      /\ WordBoundary(s, i)
                      /\ WordBoundary(s, i + 4)}
    IN  IF starts = {} THEN << >>
        ELSE SubSeq(s, Leftmost(starts), Leftmost(starts) + 1)

\* lines 332-346: each year pattern is tried on the title, then on the path
YearFromText(title, path) ==
    IF YearInParens(title) # << >> THEN YearInParens(title)
    ELSE IF YearInParens(path) # << >> THEN YearInParens(path)
    ELSE IF YearBetweenDelimiters(title) # << >> THEN YearBetweenDelimiters(title)
    ELSE IF YearBetweenDelimiters(path) # << >> THEN YearBetweenDelimiters(path)
    ELSE IF CenturyOfYear(title) # << >> THEN CenturyOfYear(title)
    ELSE CenturyOfYear(path)

\* lines 296-303
ExtractedTitle(doc) ==
    LET title == IF doc.info THEN doc.Title ELSE << >>
    IN  IF title = << >> \/ Len(title) < 3 THEN TitleFromPath(doc.path)
        ELSE title

\* lines 306-318: the native author stays when no pattern finds one in the title
ExtractedAuthor(doc, title) ==
    LET author == IF doc.info THEN doc.Author ELSE << >>
    IN  IF (author = << >> \/ StrLower(author) = S_unknown)
           /\ AuthorFromTitle(title) # << >>
        THEN AuthorFromTitle(title)
        ELSE author

\* lines 321-349
ExtractedYear(doc, title) ==
    LET year == IF doc.info
                THEN YearOfDateFields(SelectSeq(<< doc.CreationDate, doc.ModDate >>,
                                                LAMBDA v : v # << >>))
                ELSE << >>
    IN  IF year # << >> THEN year
        ELSE IF YearFromText(title, doc.path) # << >>
             THEN YearFromText(title, doc.path)
             ELSE S_Unknown

\* lines 286-359: None when open, PdfReader or pdf.metadata raised
extract_metadata_from_pdf(doc) ==
    IF ~doc.readable THEN NoPublication
    ELSE Publication(ExtractedTitle(doc),
                     IF ExtractedAuthor(doc, ExtractedTitle(doc)) # << >>
                     THEN << ExtractedAuthor(doc, ExtractedTitle(doc)) >>
                     ELSE << >>,
                     ExtractedYear(doc, ExtractedTitle(doc)),
                     << >>, << >>, << >>, << >>)

\* the native properties and paths the reader is tried on
D_2020 == << "D", ":", "2", "0", "2", "0" >>
D_2021 == << "D", ":", "2", "0", "2", "1" >>
D_2099 == << "D", ":", "2", "0", "9", "9" >>
T_by_Jane_Doe == << "X", " ", "b", "y", " ", "J", "a", "n", "e", " ", "D", "o", "e" >>
T_Doe_Jane == << "D", "o", "e", ",", " ", "J", "a", "n", "e" >>
A_Smith_and_Doe ==
    << "J", "o", "h", "n", " ", "S", "m", "i", "t", "h", ";", " ",
       "J", "a", "n", "e", " ", "D", "o", "e" >>
Path_a_2099 == << "a", " ", "(", "2", "0", "9", "9", ")", ".", "p", "d", "f" >>
Path_b_1999 ==
    << "1", "2", "_", "b", "_", "1", "9", "9", "9", "_", "c", ".", "p", "d", "f" >>
Path_x_2020 == << "x", " ", "2", "0", "2", "0", ".", "p", "d", "f" >>
Path_Doe_T == << "D", "o", "e", " ", "-", " ", "T", ".", "p", "d", "f" >>

NativeTitles == {<< >>, T_Ab, T_Paper_X, T_by_Jane_Doe, T_Doe_Jane}
NativeAuthors == {<< >>, A_John_Smith, A_Smith_and_Doe, S_Unknown}
CreationDates == {<< >>, D_2020, D_2099, Y_2020}
ModDates == {<< >>, D_2021}
DocumentPaths == {Path_p, Path_d_p_7, Path_a_2099, Path_b_1999, Path_x_2020, Path_Doe_T}

\* the documents the reader is tried on; a document that cannot be opened
\* or parsed has no properties to read
Documents ==
    {Document(TRUE, info, Title, Author, CreationDate, ModDate, path) :
        info \in BOOLEAN, Title \in NativeTitles, Author \in NativeAuthors,
        CreationDate \in CreationDates, ModDate \in ModDates,
        path \in DocumentPaths}
    \cup {Document(FALSE, FALSE, << >>, << >>, << >>, << >>, path) :
            path \in DocumentPaths}

InitExtract ==
    /\ BatchIdle
    /\ NormIdle
    /\ ScoreIdle
    /\ RerunIdle
    /\ x_pc = "call"
    /\ x_doc \in Documents
    /\ x_out = NoPublication

\* lines 290-355: the document opens and parses, a Publication is returned
ExtractReturns ==
    /\ x_pc = "call"
    /\ x_doc.readable
    /\ x_out' = extract_metadata_from_pdf(x_doc)
    /\ x_pc' = "done"
    /\ UNCHANGED << batchVars, normVars, scoreVars, rerunVars, x_doc >>

\* lines 357-359: open, PdfReader or pdf.metadata raised
ExtractRaises ==
    /\ x_pc = "call"
    /\ ~x_doc.readable
    /\ x_out' = extract_metadata_from_pdf(x_doc)
    /\ x_pc' = "done"
    /\ UNCHANGED << batchVars, normVars, scoreVars, rerunVars, x_doc >>

NextExtract == ExtractReturns \/ ExtractRaises

SpecExtract == InitExtract /\ [][NextExtract]_vars

(***************************************************************************)
(* process_directory called twice over the same input directory.  What     *)
(* each document and each service answers is fixed per document before     *)
(* the first call, and is the same in both calls; the order in which       *)
(* os.walk lists the files and the time a request takes are not.           *)
(***************************************************************************)
Script(exists, local, responses, filing) ==
    [exists |-> exists, local |-> local, responses |-> responses,
     filing |-> filing]

NoAnswers == << NoItem("no_items"), NoItem("no_items"), NoItem("no_items") >>

\* what a document and the services may answer, whenever they are asked
Scripts ==
    {Script(FALSE, NoPublication, NoAnswers, "done"),
     Script(TRUE, Local_complete, NoAnswers, "done"),
     Script(TRUE, Local_title_only,
            << Item(Crossref_full), NoItem("http_500"), NoItem("network_error") >>,
            "done"),
     Script(TRUE, NoPublication,
            << NoItem("no_items"), Item(Semantic_good), Item(Google_sparse) >>,
            "done"),
     Script(TRUE, NoPublication,
            << NoItem("http_500"), NoItem("no_items"), NoItem("malformed") >>,
            "done"),
     Script(TRUE, Local_complete, NoAnswers, "makedirs"),
     Script(TRUE, Local_complete, NoAnswers, "before_write"),
     Script(TRUE, Local_complete, NoAnswers, "partway"),
     Script(TRUE, Local_complete, NoAnswers, "after_data")}

InitRerun ==
    /\ \E dir \in SUBSET InputPaths :
          /\ Cardinality(dir) <= MaxDocs
          /\ BatchInit(dir)
          /\ script \in [dir -> Scripts]
    /\ pc = "start"
    /\ pdf_files = << >>
    /\ idx = 0
    /\ task_pc = [i \in 1..3 |-> "idle"]
    /\ latencies = {1, 2}
    /\ oversleeps = {0}
    /\ NormIdle
    /\ ScoreIdle
    /\ ExtractIdle
    /\ run = 1
    /\ first = NoFirst

\* lines 149-151, 157, 171: process_directory is called again on the same
\* organizer; its locals start afresh, the output directory and the
\* fetcher's last_request_time stay
Rerun ==
    /\ pc = "done"
    /\ run = 1
    /\ first' = [pdf_files |-> pdf_files, outcome |-> outcome,
                 successful |-> successful, failed |-> failed,
                 processed_files |-> processed_files]
    /\ run' = 2
    /\ pc' = "start"
    /\ pdf_files' = << >>
    /\ idx' = 0
    /\ successful' = 0
    /\ failed' = 0
    /\ processed_files' = << >>
    /\ processed_paths' = {}
    /\ outcome' = << >>
    /\ UNCHANGED << fsVars, docVars, taskVars, clockVars, envVars, docHistory,
                    issue_last, normVars, scoreVars, extractVars, script >>

\* the steps of the batch, the document and the services answering as the
\* script of the document says
NextRerun ==
    \/ StartBatch
    \/ SkipDuplicate
    \/ BeginOrganize
    \/ RecordResult
    \/ FinishBatch
    \/ Rerun
    \/ (FileNotFound /\ ~script[pdf_path].exists)
    \/ (FileFound /\ script[pdf_path].exists)
    \/ (ExtractMetadata /\ local_metadata' = script[pdf_path].local)
    \/ StartSearch
    \/ SkipSearch
    \/ \E i \in 1..3 : RateLimitRead(i)
    \/ \E i \in 1..3 : RateLimitSleep(i)
    \/ \E i \in 1..3 : RateLimitNoWait(i)
    \/ \E i \in 1..3 : RateLimitStamp(i)
    \/ \E i \in 1..3 :
          Request(i) /\ last_response'.response = script[pdf_path].responses[i]
    \/ SelectBest
    \/ Merge
    \/ NoMetadata
    \/ (ComputePath /\ script[pdf_path].filing # "makedirs")
    \/ (MakeDirFails /\ script[pdf_path].filing = "makedirs")
    \/ (CopyDone /\ script[pdf_path].filing = "done")
    \/ (CopyFailsBeforeWrite /\ script[pdf_path].filing = "before_write")
    \/ (CopyFailsPartway /\ script[pdf_path].filing = "partway")
    \/ (CopyFailsAfterData /\ script[pdf_path].filing = "after_data")

SpecRerun == InitRerun /\ [][NextRerun]_vars

(***************************************************************************)
(* The claims.                                                             *)
(***************************************************************************)
\* the documents processed so far
Processed == 1..Len(outcome)

SameKey(i, j) == SuppressionKey(pdf_files[i]) = SuppressionKey(pdf_files[j])

\* C1: process_directory takes the paths in sorted order, and a document is
\* skipped exactly when an earlier document of the batch with the same
\* suppression key was filed; so no key is filed twice, and a document whose
\* earlier variants all failed is attempted.
C1_SkipIffEarlierFiled ==
    /\ \A i, j \in 1..Len(pdf_files) : i < j => StrLess(pdf_files[i], pdf_files[j])
    /\ \A j \in Processed :
          outcome[j] = "skipped"
          <=> \E i \in 1..(j - 1) : SameKey(i, j) /\ outcome[i] = "succeeded"
    /\ \A i, j \in Processed :
          (i < j /\ outcome[i] = "succeeded" /\ outcome[j] = "succeeded")
          => ~SameKey(i, j)

\* C1's case: p-2.pdf sorts before p.pdf and is filed, p.pdf is skipped
C1_Witness ==
    /\ pc = "done"
    /\ pdf_files = << Path_p_2, Path_p >>
    /\ outcome = << "succeeded", "skipped" >>

\* the files under output_dir that hold bytes of the current document at
\* the destination its copy targeted
WrittenAtDestination ==
    {f \in out_fs : f.path = new_path /\ f.src = pdf_path}

\* C2: when organize_pdf returns, either the document counts as succeeded
\* and its destination holds the complete copy, or it counts as failed and
\* nothing of it is at the destination.
C2_AtomicFiling ==
    pc = "record" =>
        IF Filed(ret)
        THEN \E f \in out_fs :
                f.path = ret.new_path /\ f.src = pdf_path /\ f.state = "complete"
        ELSE WrittenAtDestination = {}

CountOf(status) == Cardinality({j \in Processed : outcome[j] = status})

\* C3: whatever fails for a document, the batch goes on to the next one
\* and comes to its end (every step leaves less of the batch to do); at the
\* end every document is exactly one of succeeded, failed and skipped, and
\* the counters add up to the number of documents.
BatchAccounted ==
    /\ \A j \in Processed : outcome[j] \in {"succeeded", "failed", "skipped"}
    /\ pc = "done" =>
          /\ Len(outcome) = Len(pdf_files)
          /\ Cardinality(input_dir) = Len(pdf_files)
          /\ successful = CountOf("succeeded")
          /\ failed = CountOf("failed")
          /\ successful + failed + CountOf("skipped") = Len(pdf_files)
          /\ Len(processed_files) = successful

\* what is left of the batch: the documents not yet classified, then the
\* statements of organize_pdf not yet run, then those of the coroutines
StageRank ==
    [start |-> 11, loop |-> 10, exists |-> 9, extract |-> 8, decide |-> 7,
     search |-> 6, merge |-> 5, file |-> 4, copy |-> 3, record |-> 2,
     done |-> 0]

TaskRank ==
    [idle |-> 0, done |-> 1, request |-> 2, stamp |-> 3, check |-> 4,
     ready |-> 5]

Variant ==
    (Cardinality(input_dir) - Len(outcome)) * 300
    + StageRank[pc] * 20
    + TaskRank[task_pc[1]] + TaskRank[task_pc[2]] + TaskRank[task_pc[3]]

C3_EveryDocumentClassified ==
    /\ [](BatchAccounted /\ Variant >= 0)
    /\ [][Variant' < Variant]_vars

\* C3's case: the first document failed and the second was filed
C3_Witness ==
    /\ pc = "done"
    /\ outcome = << "failed", "succeeded" >>

\* C4: no coroutine of the lookup client runs before local extraction, and
\* search_metadata is called exactly when local extraction gave nothing or a
\* candidate scoring below 0.5.
C4_LocalBeforeNetwork ==
    /\ (searched \/ \E i \in 1..3 : task_pc[i] # "idle") => extracted
    /\ ~searched => \A i \in 1..3 : task_pc[i] = "idle"
    /\ (extracted /\ pc \in {"search", "merge", "file", "record"}) =>
          (searched <=>
              IF IsPublication(local_metadata)
              THEN FloatLess(evaluate_metadata_quality(local_metadata), Float_0_5)
              ELSE TRUE)

\* C4's case: a local candidate scoring 0.7 was filed with no search
C4_Witness ==
    /\ pc = "record"
    /\ local_metadata = Local_complete
    /\ ~searched
    /\ Filed(ret)

\* the results that are Publications
Found == {i \in 1..3 : IsPublication(results[i])}

\* i holds the highest score among the results, and no earlier result
\* scores as high
IsFirstBest(i) ==
    /\ i \in Found
    /\ \A j \in Found :
          /\ ~FloatLess(evaluate_metadata_quality(results[i]),
                        evaluate_metadata_quality(results[j]))
          /\ j < i => FloatLess(evaluate_metadata_quality(results[j]),
                                evaluate_metadata_quality(results[i]))

\* C5: the Publication held for filing is one of the candidates as produced;
\* it is a network candidate only if that scores strictly higher than the
\* local candidate; and search_metadata returns the highest-scoring network
\* candidate, the earliest service winning an equal score.
C5_WholesaleSelection ==
    pc \in {"file", "record"} =>
        /\ IsPublication(metadata) =>
              metadata \in {local_metadata} \cup {results[i] : i \in Found}
        /\ (IsPublication(metadata) /\ IsPublication(local_metadata)
            /\ metadata # local_metadata) =>
              FloatLess(evaluate_metadata_quality(local_metadata),
                        evaluate_metadata_quality(metadata))
        /\ (searched /\ Found # {}) =>
              \E i \in Found : IsFirstBest(i) /\ online_metadata = results[i]

\* C6: a request is issued with last_request_time just set to the time of
\* issue, and at least min_request_interval after the request before it,
\* whichever services and documents the two belong to.
C6_MinimumInterval ==
    \A i \in 1..3 :
        task_pc[i] = "request" =>
            /\ last_request_time = now
            /\ issue_last # -1 => now - issue_last >= Interval

\* C6's case: the second coroutine found the interval not over, slept, and
\* issued its request
C6_Witness ==
    /\ task_pc[2] = "done"
    /\ task_pc[3] = "ready"
    /\ issue_last > current_time[2]

\* C7: a service that answers with an error yields no candidate, and
\* search_metadata returns the best candidate of the services that
\* succeeded, whichever failed.
C7_LookupFailureIsolation ==
    /\ (last_response.api # 0
        /\ last_response.response.kind \in {"network_error", "http_500", "malformed"})
       => results[last_response.api] = NoPublication
    /\ pc = "merge" =>
          IF Found = {} THEN online_metadata = NoPublication
          ELSE online_metadata \in {results[i] : i \in Found}
               /\ \A j \in Found :
                     ~FloatLess(evaluate_metadata_quality(online_metadata),
                                evaluate_metadata_quality(results[j]))

\* the score in tenths, signal by signal
NominalTenths(m) ==
    (IF HasTitleSignal(m) THEN 3 ELSE 0)
    + (IF HasCommaAuthor(m) THEN 3 ELSE IF HasAuthors(m) THEN 2 ELSE 0)
    + (IF HasYearSignal(m) THEN 2 ELSE 0)
    + (IF m.doi # << >> THEN 1 ELSE 0)
    + (IF m.publisher # << >> THEN 1 ELSE 0)

\* C8: the score is the sum of the signals' tenths, lies between 0.0 and
\* 1.0, and is not lower after one more signal was added.
C8_ScoreMonotoneBounded ==
    q_pc \in {"scored", "rescored"} =>
        /\ q_score[1] = NominalTenths(q_pub)
        /\ ~FloatLess(q_score, Float_0_0)
        /\ ~FloatLess(Float_1_0, q_score)
        /\ q_pc = "rescored" => ~FloatLess(q_score, q_prev)

\* C8's case: the last signal added brought the score to 1.0
C8_Witness ==
    /\ q_pc = "rescored"
    /\ FloatLess(q_prev, q_score)
    /\ q_score = Float_1_0

\* C9: "Smith, John" and "John Smith" both give the author key smith-john.
C9_AuthorKeyReordered ==
    (norm_pc # "start" /\ norm_op = "author"
     /\ norm_in \in {A_Smith_John, A_John_Smith})
    => norm_out = K_smith_john

\* C10: normalizing an author key or a title key again returns it unchanged.
C10_NormalizerIdempotent ==
    norm_pc = "twice" => norm_again = norm_out

\* C11: every Publication the embedded-metadata reader returns has a year
\* that is "Unknown" or a numeral of four digits between 1900 and 2024; a
\* year outside that range is rejected.
C11_YearInvariant ==
    (x_pc = "done" /\ IsPublication(x_out)) =>
        \/ x_out.year = S_Unknown
        \/ /\ Len(x_out.year) = 4
           /\ IsDigit(x_out.year)
           /\ ToInt(x_out.year) \in 1900..2024

\* str.split(sep) for a separator of one character
RECURSIVE SplitOn(_, _)
SplitOn(s, sep) ==
    IF Find(s, << sep >>) = 0 THEN << s >>
    ELSE << TakeFirst(s, Find(s, << sep >>) - 1) >>
         \o SplitOn(DropFirst(s, Find(s, << sep >>)), sep)

\* C12: when the native Title and the native Author are both non-empty, the
\* reader returns the native Title as title and the native Author split on
\* ";" as authors.
C12_NativeTitleAndAuthors ==
    (x_pc = "done" /\ x_doc.readable /\ x_doc.info
     /\ x_doc.Title # << >> /\ x_doc.Author # << >>)
    => /\ IsPublication(x_out)
       /\ x_out.title = x_doc.Title
       /\ x_out.authors = SplitOn(x_doc.Author, ";")

\* C13: when the document cannot be opened or parsed the reader does not
\* raise and returns a Publication of title "Unknown", no authors and year
\* "Unknown".
C13_FailureGivesUnknowns ==
    (x_pc = "done" /\ ~x_doc.readable)
    => x_out = Publication(S_Unknown, << >>, S_Unknown, << >>, << >>, << >>, << >>)

\* the destination paths of the documents a call reported as succeeded
DestinationPaths(files) == {files[i][3] : i \in 1..Len(files)}

\* C14: a second call of process_directory over the same batch, with every
\* document and every service answering as in the first call, processes
\* the documents in the same sorted order, skips the same documents, and
\* gives the same destination paths and the same counts.
C14_RerunDeterministic ==
    (run = 2 /\ pc = "done") =>
        /\ pdf_files = first.pdf_files
        /\ \A i, j \in 1..Len(pdf_files) :
              i < j => StrLess(pdf_files[i], pdf_files[j])
        /\ outcome = first.outcome
        /\ DestinationPaths(processed_files) = DestinationPaths(first.processed_files)
        /\ successful = first.successful
        /\ failed = first.failed

\* C14's case: the second call is over, for a batch of two documents of
\* which the first was filed and the second skipped as its variant
C14_Witness ==
    /\ run = 2
    /\ pc = "done"
    /\ outcome = << "succeeded", "skipped" >>
    /\ first.outcome = << "succeeded", "skipped" >>

\* the coroutine has read the clock in _rate_limit and not yet written
\* last_request_time
InRateLimit(i) == task_pc[i] \in {"check", "stamp"}

\* C15: with the three lookups started together, the read, check, wait and
\* write of _rate_limit by one lookup are never interleaved with those of
\* another, and no two lookups pass the check against the same
\* last_request_time: while one lookup is inside _rate_limit no other is
\* and no other moves, and each write makes last_request_time larger.
C15_NoRaceOnRateLimitClock ==
    /\ [](\A i, j \in 1..3 : (i # j /\ InRateLimit(i)) => ~InRateLimit(j))
    /\ [][\A i \in 1..3 :
             /\ InRateLimit(i) =>
                   \A j \in 1..3 : j # i => task_pc'[j] = task_pc[j]
             /\ (task_pc[i] = "stamp" /\ task_pc'[i] = "request") =>
                   last_request_time' > last_request_time]_vars

\* C15's case: the first lookup has returned, the second has slept out the
\* interval and is about to write last_request_time, the third waits
C15_Witness ==
    /\ task_pc = << "done", "stamp", "ready" >>
    /\ last_request_time < now
    /\ last_request_time = issue_last

\* C16: a candidate that exists is never lost: when a service returned a
\* Publication search_metadata returns one, whatever its score, and a
\* document fails for lack of metadata only if neither local extraction
\* nor any service produced a candidate.
C16_CandidateNeverLost ==
    /\ (pc = "merge" /\ Found # {}) => IsPublication(online_metadata)
    /\ (pc = "file" /\ ~IsPublication(metadata)) =>
          (~IsPublication(local_metadata) /\ Found = {})

\* C17: no filed document is overwritten within a batch: the documents
\* reported as succeeded have different destination paths, and the files
\* under the output directory are as many as the succeeded count and as
\* the triples returned.
C17_NoOverwriteWithinBatch ==
    pc = "done" =>
        /\ \A i, j \in 1..Len(processed_files) :
              i # j => processed_files[i][3] # processed_files[j][3]
        /\ Cardinality(out_fs) = successful
        /\ successful = Len(processed_files)

=============================================================================
